---- MODULE Spec2Model ----
(***************************************************************************)
(* Model of src/src/dbx_test/plugin.py, the pytest plugin of dbx_test.      *)
(*                                                                         *)
(* One pytest session is one behaviour.  The process environment, the      *)
(* command line, the collected items and the importability of pyspark are  *)
(* chosen in the initial state; the hooks of the plugin then run in the    *)
(* order pytest calls them:                                                *)
(*   pytest_addoption -> (command line parsed) -> pytest_configure ->      *)
(*   pytest_collection_modifyitems -> dbx_test_options (any number of      *)
(*   accesses).                                                            *)
(* Code outside the plugin may change os.environ at any point.             *)
(*                                                                         *)
(* A Python str is a sequence of one-character strings, so that            *)
(* str.lower() and the comparison with "true" are computed.               *)
(***************************************************************************)
EXTENDS Integers, Sequences, FiniteSets, TLC

\* Largest number of collected test items.
MaxItems == 2
\* Largest number of counted accesses to the dbx_test_options fixture.
MaxAccess == 2

VARIABLES
  env,            \* os.environ: a function from the names that are set to str
  argv,           \* the command line: per option the value given, None if absent
  parser,         \* <<>> before pytest_addoption, then <<the declared defaults>>
  config,         \* <<>> before the command line is parsed, then <<config.option>>
  ini_markers,    \* the "markers" ini lines added by pytest_configure
  items,          \* the collected items, each [nodeid, own_markers]
  pyspark,        \* TRUE iff `import pyspark` succeeds in this process
  probed,         \* what is_databricks_runtime() returned for each item
  hook_exc,       \* the exception that left pytest_collection_modifyitems, "" if none
  fixture_cache,  \* pytest's session cache of dbx_test_options: <<>> or <<Options>>
  observed,       \* <<>>, or <<the Options the latest access received>>
  n_access,       \* accesses to dbx_test_options so far (counted up to MaxAccess)
  pc              \* where the session is

vars == <<env, argv, parser, config, ini_markers, items, pyspark, probed,
          hook_exc, fixture_cache, observed, n_access, pc>>

----------------------------------------------------------------------------
(* Python values *)

\* Python's None: no str equals it (a str is a sequence of one-character strings).
None == <<"None">>

\* bool(v) of a value that is None or a str.
Truthy(v) == v # None /\ v # <<>>

\* str.lower() on one character.
LowerChar(c) ==
  CASE c = "T" -> "t"
    [] c = "R" -> "r"
    [] c = "U" -> "u"
    [] c = "E" -> "e"
    [] c = "Y" -> "y"
    [] c = "S" -> "s"
    [] c = "P" -> "p"
    [] c = "C" -> "c"
    [] c = "H" -> "h"
    [] OTHER -> c

\* A plausible slip: the value is compared as it is, without lower().
LowerIdentity(s) == s

\* str.lower()
Lower(s) == [i \in 1..Len(s) |-> LowerChar(s[i])]

\* os.environ.get(key, default)
environ_get(e, key, default) == IF key \in DOMAIN e THEN e[key] ELSE default

\* os.environ[key] = value
environ_set(e, key, value) ==
  [k \in DOMAIN e \cup {key} |-> IF k = key THEN value ELSE e[k]]

\* del os.environ[key]
environ_del(e, key) == [k \in DOMAIN e \ {key} |-> e[k]]

----------------------------------------------------------------------------
(* pytest_addoption: the declared defaults *)

\* A plausible slip: the environment variable is not consulted.
EnvDefaultIgnored(e, key) == None

\* default=os.environ.get(KEY) of the three "store" options.
EnvDefault(e, key) == environ_get(e, key, None)

\* default=os.environ.get("DBX_TEST_USE_CONNECT", "").lower() == "true"
UseConnectDefault(e) ==
  Lower(environ_get(e, "DBX_TEST_USE_CONNECT", <<>>)) = <<"t", "r", "u", "e">>

\* default=False of --dbx-no-cleanup
NoCleanupDefault == FALSE

\* The defaults the five addoption calls declare.
DeclaredDefaults(e) ==
  [profile     |-> EnvDefault(e, "DBX_TEST_PROFILE"),
   cluster_id  |-> EnvDefault(e, "DBX_TEST_CLUSTER_ID"),
   use_connect |-> UseConnectDefault(e),
   catalog     |-> EnvDefault(e, "DBX_TEST_CATALOG"),
   no_cleanup  |-> NoCleanupDefault]

\* A plausible slip: a default that is set wins over the flag.
StoreDefaultFirst(given, default) == IF default # None THEN default ELSE given

\* action="store": the value given on the command line, else the default.
Store(given, default) == IF given # None THEN given ELSE default

\* action="store_true": True when the flag is present, else the default.
StoreTrue(present, default) == IF present THEN TRUE ELSE default

\* config.option after the command line is parsed against the declared options.
ParseArgs(a, d) ==
  [profile     |-> Store(a.profile, d.profile),
   cluster_id  |-> Store(a.cluster_id, d.cluster_id),
   use_connect |-> StoreTrue(a.use_connect, d.use_connect),
   catalog     |-> Store(a.catalog, d.catalog),
   no_cleanup  |-> StoreTrue(a.no_cleanup, d.no_cleanup)]

----------------------------------------------------------------------------
(* pytest_configure *)

\* The five config.addinivalue_line("markers", ...) calls, in order.
MarkerLines ==
  <<"databricks: mark test as requiring Databricks connection",
    "spark: mark test as requiring SparkSession",
    "notebook: mark test as a notebook-based test",
    "slow: mark test as slow-running",
    "integration: mark test as integration test">>

----------------------------------------------------------------------------
(* pytest_collection_modifyitems *)

\* A marker as the hook sees it: its name and, for a skip, its reason.
Mark(name, reason) == [name |-> name, reason |-> reason]

\* skip_databricks = pytest.mark.skip(reason="Databricks connection not available")
skip_databricks == Mark("skip", "Databricks connection not available")

\* skip_spark = pytest.mark.skip(reason="SparkSession not available")
skip_spark == Mark("skip", "SparkSession not available")

\* [m.name for m in item.iter_markers()]
MarkerNames(item) == {item.own_markers[k].name : k \in DOMAIN item.own_markers}

\* A plausible slip: the new marker replaces the item's markers.
add_marker_replacing(item, mark) == [item EXCEPT !.own_markers = <<mark>>]

\* item.add_marker(mark): the marker is appended to the item's own markers.
add_marker(item, mark) ==
  [item EXCEPT !.own_markers = Append(item.own_markers, mark)]

\* A plausible slip: `is not None` in place of the truth value.
TruthyHost(host) == host # None

\* bool(os.environ.get("DATABRICKS_HOST")): the last operand of the `or` chain.
HostSignal(host) == Truthy(host)

\* A plausible slip: the DATABRICKS_HOST operand is left out.
has_databricks_no_host(probe, use_connect, host) == probe \/ use_connect

\* The truth value of
\*   is_databricks_runtime() or config.getoption("--dbx-use-connect")
\*   or os.environ.get("DATABRICKS_HOST")
has_databricks(probe, use_connect, host) ==
  probe \/ use_connect \/ HostSignal(host)

\* A plausible slip: the marker test is left out.
DatabricksCheckUnmarked(item, has_db) ==
  IF ~has_db THEN add_marker(item, skip_databricks) ELSE item

\* if "databricks" in names: if not has_databricks: item.add_marker(skip_databricks)
DatabricksCheck(item, has_db) ==
  IF "databricks" \in MarkerNames(item) /\ ~has_db
    THEN add_marker(item, skip_databricks)
    ELSE item

\* A plausible slip: an item that was just skipped is not looked at again (elif).
RequiresSparkUnlessSkipped(item) ==
  "spark" \in MarkerNames(item) /\ skip_databricks \notin
    {item.own_markers[k] : k \in DOMAIN item.own_markers}

\* if "spark" in [m.name for m in item.iter_markers()], read after the first check
RequiresSpark(item) == "spark" \in MarkerNames(item)

\* `import pyspark`: the exception it raises, "" when it succeeds.
ImportPyspark(importable) == IF importable THEN "" ELSE "ImportError"

\* A plausible slip: the except clause names another exception.
ExceptOther(exc) == exc = "KeyError"

\* except ImportError: whether the clause catches exc.
ExceptImportError(exc) == exc = "ImportError"

\* try: import pyspark / except ImportError: item.add_marker(skip_spark)
\* The item afterwards and the exception that leaves the statement ("" if none).
SparkCheck(item, importable) ==
  IF ~RequiresSpark(item)
    THEN [item |-> item, exc |-> ""]
    ELSE LET exc == ImportPyspark(importable)
         IN  IF exc = "" THEN [item |-> item, exc |-> ""]
             ELSE IF ExceptImportError(exc)
               THEN [item |-> add_marker(item, skip_spark), exc |-> ""]
               ELSE [item |-> item, exc |-> exc]

\* One iteration of `for item in items`.
LoopBody(item, probe, use_connect, host, importable) ==
  SparkCheck(DatabricksCheck(item, has_databricks(probe, use_connect, host)),
             importable)

\* The whole loop: the iterations run in order and stop at the first exception.
RunLoop(its, probe, use_connect, host, importable) ==
  LET done == [i \in DOMAIN its |->
                 LoopBody(its[i], probe[i], use_connect, host, importable)]
      raising == {i \in DOMAIN its : done[i].exc # ""}
      first == IF raising = {} THEN Len(its) + 1
               ELSE CHOOSE i \in raising : \A j \in raising : i <= j
  IN  [items |-> [i \in DOMAIN its |->
                    IF i <= first THEN done[i].item ELSE its[i]],
       probed |-> SubSeq(probe, 1, IF raising = {} THEN Len(its) ELSE first),
       exc |-> IF raising = {} THEN "" ELSE done[first].exc]

----------------------------------------------------------------------------
(* dbx_test_options *)

\* A plausible slip: the fixture resolves the options again from os.environ.
OptionsFromEnviron(c) == ParseArgs(argv, DeclaredDefaults(env))

\* class Options: the five request.config.getoption(...) reads.
Options(c) ==
  [profile     |-> c.profile,
   cluster_id  |-> c.cluster_id,
   use_connect |-> c.use_connect,
   catalog     |-> c.catalog,
   no_cleanup  |-> c.no_cleanup]

----------------------------------------------------------------------------
(* The inputs of a session *)

\* Values of DBX_TEST_USE_CONNECT (None: the variable is not set).
UseConnectValues ==
  {None, <<>>, <<"1">>, <<"y", "e", "s">>, <<" ", "t", "r", "u", "e">>,
   <<"t", "r", "u", "e">>, <<"T", "R", "U", "E">>, <<"T", "r", "u", "e">>}

\* Values of DBX_TEST_PROFILE, and of DBX_TEST_CLUSTER_ID and DBX_TEST_CATALOG.
ProfileValues == {None, <<>>, <<"p">>}
IdValues == {None, <<"c">>}

\* Values of DATABRICKS_HOST.
HostValues == {None, <<>>, <<"h">>}

\* Values a "store" flag is given on the command line (None: the flag is absent).
FlagValues == {None, <<"q">>}

\* os.environ with each variable set to its value, the None ones left unset.
MakeEnv(p, c, u, t, h) ==
  LET all == [k \in {"DBX_TEST_PROFILE", "DBX_TEST_CLUSTER_ID",
                     "DBX_TEST_USE_CONNECT", "DBX_TEST_CATALOG",
                     "DATABRICKS_HOST"} |->
                CASE k = "DBX_TEST_PROFILE" -> p
                  [] k = "DBX_TEST_CLUSTER_ID" -> c
                  [] k = "DBX_TEST_USE_CONNECT" -> u
                  [] k = "DBX_TEST_CATALOG" -> t
                  [] OTHER -> h]
  IN  [k \in {x \in DOMAIN all : all[x] # None} |-> all[k]]

\* The strings a variable may be set to while the session runs.
SetValues(key) ==
  CASE key = "DBX_TEST_USE_CONNECT" -> UseConnectValues \ {None}
    [] key = "DBX_TEST_PROFILE" -> ProfileValues \ {None}
    [] key = "DATABRICKS_HOST" -> HostValues \ {None}
    [] OTHER -> IdValues \ {None}

\* The marker lists test authors put on an item.
AuthorMarkers ==
  {<<>>,
   <<Mark("slow", "")>>,
   <<Mark("databricks", "")>>,
   <<Mark("spark", "")>>,
   <<Mark("databricks", ""), Mark("spark", "")>>,
   <<Mark("skip", "not ready"), Mark("spark", "")>>}

\* The collections of at most MaxItems items; item i has node id i.
Collections ==
  UNION {{[i \in 1..n |-> [nodeid |-> i, own_markers |-> m[i]]] :
            m \in [1..n -> AuthorMarkers]} : n \in 0..MaxItems}

\* What a call of is_databricks_runtime() may return.
ProbeAnswers == BOOLEAN

----------------------------------------------------------------------------
(* The session *)

InitWith(Envs, Argvs, Colls, Importable) ==
  /\ env \in Envs
  /\ argv \in Argvs
  /\ items \in Colls
  /\ pyspark \in Importable
  /\ parser = <<>>
  /\ config = <<>>
  /\ ini_markers = <<>>
  /\ probed = <<>>
  /\ hook_exc = ""
  /\ fixture_cache = <<>>
  /\ observed = <<>>
  /\ n_access = 0
  /\ pc = "start"

\* pytest_addoption(parser): the five options are declared with their defaults.
pytest_addoption ==
  /\ pc = "start"
  /\ parser' = <<DeclaredDefaults(env)>>
  /\ pc' = "declared"
  /\ UNCHANGED <<env, argv, config, ini_markers, items, pyspark, probed,
                 hook_exc, fixture_cache, observed, n_access>>

\* pytest parses the command line against the declared options.
ParseCommandLine ==
  /\ pc = "declared"
  /\ config' = <<ParseArgs(argv, parser[1])>>
  /\ pc' = "parsed"
  /\ UNCHANGED <<env, argv, parser, ini_markers, items, pyspark, probed,
                 hook_exc, fixture_cache, observed, n_access>>

\* pytest_configure(config): the five marker lines are registered.
pytest_configure ==
  /\ pc = "parsed"
  /\ ini_markers' = ini_markers \o MarkerLines
  /\ pc' = "configured"
  /\ UNCHANGED <<env, argv, parser, config, items, pyspark, probed,
                 hook_exc, fixture_cache, observed, n_access>>

\* pytest_collection_modifyitems(config, items); is_databricks_runtime() is called
\* once per item and may answer anything.
pytest_collection_modifyitems ==
  /\ pc = "configured"
  /\ \E probe \in [DOMAIN items -> ProbeAnswers] :
       LET r == RunLoop(items, probe, config[1].use_connect,
                        environ_get(env, "DATABRICKS_HOST", None), pyspark)
       IN  /\ items' = r.items
           /\ probed' = r.probed
           /\ hook_exc' = r.exc
           /\ pc' = IF r.exc = "" THEN "collected" ELSE "error"
  /\ UNCHANGED <<env, argv, parser, config, ini_markers, pyspark,
                 fixture_cache, observed, n_access>>

\* A test requests dbx_test_options: built on the first request of the session,
\* the cached instance afterwards (scope="session").
dbx_test_options ==
  /\ pc = "collected"
  /\ n_access < MaxAccess
  /\ fixture_cache' = IF fixture_cache = <<>> THEN <<Options(config[1])>>
                      ELSE fixture_cache
  /\ observed' = fixture_cache'
  /\ n_access' = n_access + 1
  /\ UNCHANGED <<env, argv, parser, config, ini_markers, items, pyspark,
                 probed, hook_exc, pc>>

\* Code outside the plugin sets an environment variable.
SetEnv(key) ==
  /\ \E v \in SetValues(key) : v # environ_get(env, key, None)
                               /\ env' = environ_set(env, key, v)
  /\ UNCHANGED <<argv, parser, config, ini_markers, items, pyspark, probed,
                 hook_exc, fixture_cache, observed, n_access, pc>>

\* Code outside the plugin unsets an environment variable.
DelEnv(key) ==
  /\ key \in DOMAIN env
  /\ env' = environ_del(env, key)
  /\ UNCHANGED <<argv, parser, config, ini_markers, items, pyspark, probed,
                 hook_exc, fixture_cache, observed, n_access, pc>>

\* The collection phase: every collection, the signals the hook reads.
Init ==
  InitWith({MakeEnv(None, None, u, None, h) :
              u \in {None, <<"t", "r", "u", "e">>}, h \in HostValues},
           [profile : {None}, cluster_id : {None}, use_connect : BOOLEAN,
            catalog : {None}, no_cleanup : {FALSE}],
           Collections,
           BOOLEAN)

Hooks ==
  \/ pytest_addoption
  \/ ParseCommandLine
  \/ pytest_configure
  \/ pytest_collection_modifyitems
  \/ dbx_test_options

Next ==
  \/ Hooks
  \/ SetEnv("DATABRICKS_HOST")
  \/ DelEnv("DATABRICKS_HOST")

Spec == Init /\ [][Next]_vars

\* The option phase: every environment and command line, an empty collection.
OptionVars ==
  {"DBX_TEST_PROFILE", "DBX_TEST_CLUSTER_ID", "DBX_TEST_USE_CONNECT",
   "DBX_TEST_CATALOG"}

InitOptions ==
  InitWith({MakeEnv(p, c, u, t, None) :
              p \in ProfileValues, c \in IdValues, u \in UseConnectValues,
              t \in IdValues},
           [profile : FlagValues, cluster_id : FlagValues, use_connect : BOOLEAN,
            catalog : FlagValues, no_cleanup : BOOLEAN],
           {<<>>},
           {TRUE})

NextOptions ==
  \/ Hooks
  \/ \E key \in OptionVars : SetEnv(key)
  \/ \E key \in OptionVars : DelEnv(key)

SpecOptions == InitOptions /\ [][NextOptions]_vars

----------------------------------------------------------------------------
(* Properties *)

\* The item carries a marker of that name.
Carries(item, name) ==
  \E k \in DOMAIN item.own_markers : item.own_markers[k].name = name

\* The item has exactly that marker.
HasMark(item, mark) ==
  \E k \in DOMAIN item.own_markers : item.own_markers[k] = mark

Marks(item) == {item.own_markers[k] : k \in DOMAIN item.own_markers}

\* The step in which pytest_collection_modifyitems runs, and the one in which it
\* returns normally.
HookStep == pc = "configured" /\ pc' # "configured"
HookReturns == pc = "configured" /\ pc' = "collected"

\* The step in which pytest_addoption runs.
DeclareStep == pc = "start" /\ pc' = "declared"

\* DATABRICKS_HOST is set to a non-empty value.
HostNonEmpty ==
  "DATABRICKS_HOST" \in DOMAIN env /\ Len(env["DATABRICKS_HOST"]) > 0

\* has_remote_runtime for item i, from the three signals the hook reads.
HasRemoteRuntime(i) == probed'[i] \/ config[1].use_connect \/ HostNonEmpty

\* s equals "true" when letter case is ignored.
TrueIgnoringCase(s) ==
  /\ Len(s) = 4
  /\ s[1] \in {"t", "T"}
  /\ s[2] \in {"r", "R"}
  /\ s[3] \in {"u", "U"}
  /\ s[4] \in {"e", "E"}

\* C1: after the hook has run, an item marked `databricks` has the skip marker
\* "Databricks connection not available" if and only if none of the three signals
\* holds: the probe answered false for it, the resolved --dbx-use-connect is false
\* and DATABRICKS_HOST is unset or empty.
C1_DatabricksSkipIffNoRuntime ==
  [][HookReturns =>
       \A i \in DOMAIN items :
         Carries(items[i], "databricks") =>
           (HasMark(items'[i], skip_databricks) <=> ~HasRemoteRuntime(i))]_vars

\* Two `databricks` items of one collection, one skipped and one (whose probe
\* answered true) not.
C1_Witness ==
  /\ pc = "collected"
  /\ \E i, j \in DOMAIN items :
       /\ Carries(items[i], "databricks") /\ Carries(items[j], "databricks")
       /\ HasMark(items[i], skip_databricks)
       /\ ~HasMark(items[j], skip_databricks)
       /\ ~probed[i] /\ probed[j]

\* C2 as stated: with the probe false and --dbx-use-connect false, DATABRICKS_HOST
\* being set at all, to any value including the empty string, keeps the databricks
\* skip marker off a `databricks` item.
C2_AnyHostValueSuffices ==
  [][HookReturns /\ "DATABRICKS_HOST" \in DOMAIN env =>
       \A i \in DOMAIN items :
         (Carries(items[i], "databricks") /\ ~probed'[i] /\ ~config[1].use_connect)
           => ~HasMark(items'[i], skip_databricks)]_vars

\* C2 amended: with the probe false and --dbx-use-connect false, DATABRICKS_HOST
\* set to any non-empty value keeps the databricks skip marker off a `databricks`
\* item.
C2_NonEmptyHostSuffices ==
  [][HookReturns /\ HostNonEmpty =>
       \A i \in DOMAIN items :
         (Carries(items[i], "databricks") /\ ~probed'[i] /\ ~config[1].use_connect)
           => ~HasMark(items'[i], skip_databricks)]_vars

\* A `databricks` item left without the skip marker on the strength of a non-empty
\* DATABRICKS_HOST alone.
C2_Witness ==
  /\ pc = "collected"
  /\ HostNonEmpty
  /\ ~config[1].use_connect
  /\ \E i \in DOMAIN items :
       /\ Carries(items[i], "databricks")
       /\ ~probed[i]
       /\ ~HasMark(items[i], skip_databricks)

\* C3: the hook always returns normally (no exception of the import leaves it),
\* and afterwards an item marked `spark` has the skip marker "SparkSession not
\* available" if and only if `import pyspark` fails, whatever the probe, the
\* connect option and DATABRICKS_HOST are.
C3_SparkSkipIffImportFails ==
  [][HookStep =>
       /\ pc' = "collected"
       /\ hook_exc' = ""
       /\ \A i \in DOMAIN items :
            Carries(items[i], "spark") =>
              (HasMark(items'[i], skip_spark) <=> ~pyspark)]_vars

\* A `spark` item skipped for the missing import although the runtime probe
\* answered true for it.
C3_Witness ==
  /\ pc = "collected"
  /\ hook_exc = ""
  /\ ~pyspark
  /\ \E i \in DOMAIN items :
       /\ Carries(items[i], "spark")
       /\ probed[i]
       /\ HasMark(items[i], skip_spark)

\* C4: the hook leaves the markers of an item that carries neither `databricks`
\* nor `spark` exactly as they were.
C4_UnmarkedItemsUntouched ==
  [][HookStep =>
       \A i \in DOMAIN items :
         (~Carries(items[i], "databricks") /\ ~Carries(items[i], "spark"))
           => items'[i] = items[i]]_vars

\* An item without markers, untouched, beside an item of the same collection
\* that was skipped for both reasons.
C4_Witness ==
  /\ pc = "collected"
  /\ \E i, j \in DOMAIN items :
       /\ items[i].own_markers = <<>>
       /\ HasMark(items[j], skip_databricks)
       /\ HasMark(items[j], skip_spark)

\* C9: the hook keeps the collection's items and their order; every item keeps
\* the markers it had, in place, and whatever was added is a skip marker.
C9_AnnotateOnly ==
  [][HookStep =>
       /\ Len(items') = Len(items)
       /\ \A i \in DOMAIN items :
            /\ items'[i].nodeid = items[i].nodeid
            /\ Marks(items[i]) \subseteq Marks(items'[i])
            /\ Len(items'[i].own_markers) >= Len(items[i].own_markers)
            /\ SubSeq(items'[i].own_markers, 1, Len(items[i].own_markers))
                 = items[i].own_markers
            /\ \A k \in DOMAIN items'[i].own_markers :
                 k > Len(items[i].own_markers)
                   => items'[i].own_markers[k].name = "skip"]_vars

\* A collection of two items after the hook, one of them with both of its own
\* markers followed by the two skip markers.
C9_Witness ==
  /\ pc = "collected"
  /\ Len(items) = 2
  /\ \E i \in DOMAIN items :
       items[i].own_markers =
         <<Mark("databricks", ""), Mark("spark", ""), skip_databricks, skip_spark>>

\* C10: for an item carrying both markers the two checks decide separately: the
\* databricks skip is attached exactly when no runtime signal holds and the spark
\* skip exactly when the import fails.
C10_ChecksIndependent ==
  [][HookReturns =>
       \A i \in DOMAIN items :
         (Carries(items[i], "databricks") /\ Carries(items[i], "spark")) =>
           /\ HasMark(items'[i], skip_databricks) <=> ~HasRemoteRuntime(i)
           /\ HasMark(items'[i], skip_spark) <=> ~pyspark]_vars

\* Two items carrying both markers, one with both skips and one with the spark
\* skip only.
C10_Witness ==
  /\ pc = "collected"
  /\ \E i, j \in DOMAIN items :
       /\ Carries(items[i], "databricks") /\ Carries(items[i], "spark")
       /\ Carries(items[j], "databricks") /\ Carries(items[j], "spark")
       /\ HasMark(items[i], skip_databricks) /\ HasMark(items[i], skip_spark)
       /\ ~HasMark(items[j], skip_databricks) /\ HasMark(items[j], skip_spark)

\* The other two outcomes for an item carrying both markers: the databricks skip
\* only, and no skip.
C10_OnlyDatabricksSkip ==
  /\ pc = "collected"
  /\ \E i, j \in DOMAIN items :
       /\ Carries(items[i], "databricks") /\ Carries(items[i], "spark")
       /\ Carries(items[j], "databricks") /\ Carries(items[j], "spark")
       /\ HasMark(items[i], skip_databricks) /\ ~HasMark(items[i], skip_spark)
       /\ Marks(items[j]) = {Mark("databricks", ""), Mark("spark", "")}

\* The declared defaults and the parsed options do not change once they exist.
ResolvedOnce ==
  /\ parser # <<>> => parser' = parser
  /\ config # <<>> => config' = config

\* The string an environment variable holds when pytest_addoption runs, None if
\* it is not set.
Declared(key) == IF key \in DOMAIN env THEN env[key] ELSE None

\* C5: the resolved use_connect is true if and only if --dbx-use-connect is on the
\* command line or DBX_TEST_USE_CONNECT, as it is when the options are declared,
\* equals "true" with letter case ignored.
C5_UseConnectResolution ==
  /\ [](config # <<>> =>
          (config[1].use_connect <=> (argv.use_connect \/ parser[1].use_connect)))
  /\ [][DeclareStep =>
          (parser'[1].use_connect <=>
             ("DBX_TEST_USE_CONNECT" \in DOMAIN env
              /\ TrueIgnoringCase(env["DBX_TEST_USE_CONNECT"])))]_vars
  /\ [][ResolvedOnce]_vars

\* use_connect resolved to true without the flag, from a mixed-case value that is
\* still in the environment.
C5_Witness ==
  /\ config # <<>>
  /\ ~argv.use_connect
  /\ config[1].use_connect
  /\ Declared("DBX_TEST_USE_CONNECT") = <<"T", "r", "u", "e">>

\* C6: a flag on the command line decides the resolved option whatever the
\* environment variable holds; without the flag the option is the declared
\* default, and a variable that is set decides that default in place of the
\* built-in one.
C6_FlagOverEnvOverDefault ==
  /\ [](config # <<>> =>
          /\ config[1].profile =
               (IF argv.profile # None THEN argv.profile ELSE parser[1].profile)
          /\ config[1].cluster_id =
               (IF argv.cluster_id # None THEN argv.cluster_id
                ELSE parser[1].cluster_id)
          /\ config[1].catalog =
               (IF argv.catalog # None THEN argv.catalog ELSE parser[1].catalog)
          /\ config[1].use_connect =
               (IF argv.use_connect THEN TRUE ELSE parser[1].use_connect)
          /\ config[1].no_cleanup =
               (IF argv.no_cleanup THEN TRUE ELSE parser[1].no_cleanup))
  /\ [][DeclareStep =>
          /\ "DBX_TEST_PROFILE" \in DOMAIN env
               => parser'[1].profile = env["DBX_TEST_PROFILE"]
          /\ "DBX_TEST_CLUSTER_ID" \in DOMAIN env
               => parser'[1].cluster_id = env["DBX_TEST_CLUSTER_ID"]
          /\ "DBX_TEST_CATALOG" \in DOMAIN env
               => parser'[1].catalog = env["DBX_TEST_CATALOG"]
          /\ "DBX_TEST_USE_CONNECT" \in DOMAIN env
               => (parser'[1].use_connect
                     <=> TrueIgnoringCase(env["DBX_TEST_USE_CONNECT"]))]_vars
  /\ [][ResolvedOnce]_vars

\* --dbx-profile given while DBX_TEST_PROFILE was declared with another value:
\* the flag's value is the resolved one.
C6_Witness ==
  /\ config # <<>>
  /\ argv.profile # None
  /\ parser[1].profile # None
  /\ parser[1].profile # argv.profile
  /\ config[1].profile = argv.profile
  /\ argv.use_connect
  /\ ~parser[1].use_connect
  /\ config[1].use_connect

\* C7: without the flag, the resolved option is the value the environment
\* variable holds when the options are declared (for use_connect: whether that
\* value is "true", case ignored), and None, or false, when the variable is not
\* set; --dbx-no-cleanup has no variable and resolves to false.
C7_EnvOnlyResolution ==
  /\ [](config # <<>> =>
          /\ argv.profile = None => config[1].profile = parser[1].profile
          /\ argv.cluster_id = None => config[1].cluster_id = parser[1].cluster_id
          /\ argv.catalog = None => config[1].catalog = parser[1].catalog
          /\ ~argv.use_connect => config[1].use_connect = parser[1].use_connect
          /\ ~argv.no_cleanup => config[1].no_cleanup = FALSE)
  /\ [][DeclareStep =>
          /\ parser'[1].profile = Declared("DBX_TEST_PROFILE")
          /\ parser'[1].cluster_id = Declared("DBX_TEST_CLUSTER_ID")
          /\ parser'[1].catalog = Declared("DBX_TEST_CATALOG")
          /\ parser'[1].use_connect =
               (Declared("DBX_TEST_USE_CONNECT") # None
                /\ TrueIgnoringCase(Declared("DBX_TEST_USE_CONNECT")))]_vars
  /\ [][ResolvedOnce]_vars

\* No flag at all: profile from a set variable, catalog unset and so None,
\* use_connect from "TRUE", no_cleanup false.
C7_Witness ==
  /\ config # <<>>
  /\ argv.profile = None /\ argv.cluster_id = None /\ argv.catalog = None
  /\ ~argv.use_connect /\ ~argv.no_cleanup
  /\ Declared("DBX_TEST_PROFILE") = <<"p">>
  /\ config[1].profile = <<"p">>
  /\ config[1].catalog = None
  /\ Declared("DBX_TEST_USE_CONNECT") = <<"T", "R", "U", "E">>
  /\ config[1].use_connect
  /\ ~config[1].no_cleanup

\* C8: whatever an access to dbx_test_options receives are the five resolved
\* values of the configuration, and neither they nor the cached instance change
\* afterwards, whatever happens to the environment.
C8_OptionSetStable ==
  /\ [](observed # <<>> =>
          /\ observed[1].profile = config[1].profile
          /\ observed[1].cluster_id = config[1].cluster_id
          /\ observed[1].use_connect = config[1].use_connect
          /\ observed[1].catalog = config[1].catalog
          /\ observed[1].no_cleanup = config[1].no_cleanup)
  /\ [][/\ observed # <<>> => observed' = observed
        /\ fixture_cache # <<>> => fixture_cache' = fixture_cache
        /\ config # <<>> => config' = config]_vars

\* A second access that still sees the profile and use_connect taken from
\* variables that have since been unset.
C8_Witness ==
  /\ n_access >= 2
  /\ argv.profile = None
  /\ ~argv.use_connect
  /\ observed[1].profile = <<"p">>
  /\ observed[1].use_connect
  /\ "DBX_TEST_PROFILE" \notin DOMAIN env
  /\ "DBX_TEST_USE_CONNECT" \notin DOMAIN env

====
